---- MODULE Spec2Model ----
(***************************************************************************)
(* Model of the EVSE Master UDP integration: the EVSEClient facade         *)
(* (evse_client.py), its anti-wear cooldown guard, the safe-default        *)
(* amperage policy, the record projection, the polling coordinator         *)
(* and the setup and unload of config entries (__init__.py).               *)
(*                                                                         *)
(* The wire protocol (protocol.py: Communicator, EVSE) is not part of the  *)
(* modelled sources.  Its registry is the variable evses, and everything   *)
(* it decides (discovery, device attributes, the reply to a forwarded      *)
(* command, a failing call) is a nondeterministic choice.                  *)
(*                                                                         *)
(* Time: datetime.now() is an integer number of clock ticks, and           *)
(* timedelta(minutes=m) is m * TicksPerMinute ticks.                       *)
(***************************************************************************)
EXTENDS Integers, FiniteSets, Sequences, TLC

VARIABLES
    now,                     \* datetime.now(), in ticks
    running,                 \* EVSEClient.running
    evses,                   \* the communicator's registry: serial -> EVSE
    fast_change_protection,  \* EVSEClient._fast_change_protection: serial -> minutes
    last_charge_change,      \* EVSEClient._last_charge_change: serial -> timestamp
    stopping,                \* stop_charging calls awaiting evse.charge_stop(): serial -> was_charging
    ev,                      \* what the step just taken returned and forwarded
    data,                    \* coordinator -> DataUpdateCoordinator.data
    last_update_success,     \* coordinator -> DataUpdateCoordinator.last_update_success
    fetch,                   \* coordinator -> what its last poll tick met (see Met)
    evse_in,                 \* the EVSE handed to _evse_to_dict
    dict_out,                \* the dictionary _evse_to_dict returned
    hass_data,               \* hass.data[DOMAIN]: entry_id -> what async_setup_entry stored
    setting_up,              \* async_setup_entry calls past their first await: entry_id -> position
    starting                 \* the number of start() calls awaiting communicator.start()

vars == <<now, running, evses, fast_change_protection, last_charge_change,
          stopping, ev, data, last_update_success, fetch, evse_in, dict_out,
          hass_data, setting_up, starting>>

----------------------------------------------------------------------------
(* Bounds of the model *)

\* the clock runs from 0 to MaxNow ticks
MaxNow == 3
\* clock resolution: ticks in one minute
TicksPerMinute == 2
\* protection values entered are 0..MaxMinutes
MaxMinutes == 1
\* start() calls that await communicator.start() at the same time
MaxStarting == 2

\* the identifiers callers use, and those of them the device link ever reports
Serials == {"ABC123", "XYZ789"}
LinkSerials == {"ABC123"}

----------------------------------------------------------------------------
(* Python values *)

\* an Optional argument: None is the empty tuple, a value v is <<v>>
None == <<>>
Some(v) == <<v>>

\* dict.get(k, default) and d[k] = v
Get(d, k, default) == IF k \in DOMAIN d THEN d[k] ELSE default
Put(d, k, v) == [x \in DOMAIN d \cup {k} |-> IF x = k THEN v ELSE d[x]]
Drop(d, k) == [x \in DOMAIN d \ {k} |-> d[x]]
EmptyDict == <<>>

\* evse.state is None / evse.current_charge is None
NoState == [absent |-> TRUE]
NoCharge == [absent |-> TRUE]

----------------------------------------------------------------------------
(* The protocol layer's EVSE objects, as far as the client reads them *)

\* get_meta_state() labels; only "CHARGING" is tested by the client
MetaStates == {"IDLE", "CHARGING"}

EvseInfo(serial, max_electricity) ==
    [serial |-> serial, ip |-> "192.168.1.50", port |-> 28376, brand |-> "Morec",
     model |-> "EVSE-7", hardware_version |-> "1.2", software_version |-> "3.4",
     max_power |-> 7400, max_electricity |-> max_electricity, phases |-> 1]

EvseConfig(name, max_electricity) ==
    [name |-> name, max_electricity |-> max_electricity, temperature_unit |-> "C"]

\* an EVSE with electrical state (or NoState) and a session (or NoCharge)
MkEvse(serial, meta_state, online, logged_in, name, configured, advertised, state, charge) ==
    [info |-> EvseInfo(serial, advertised),
     config |-> EvseConfig(name, configured),
     state |-> state,
     current_charge |-> charge,
     last_seen |-> 1700000000,
     online |-> online,
     logged_in |-> logged_in,
     meta_state |-> meta_state]

LiveState ==
    [current_power |-> 3600, l1_voltage |-> 231, l2_voltage |-> 232, l3_voltage |-> 233,
     l1_electricity |-> 11, l2_electricity |-> 12, l3_electricity |-> 13,
     inner_temp |-> 41, outer_temp |-> 25, gun_state |-> 2, output_state |-> 1,
     errors |-> <<"RELAY_STUCK">>]

QuietState ==
    [current_power |-> 0, l1_voltage |-> 229, l2_voltage |-> 0, l3_voltage |-> 0,
     l1_electricity |-> 0, l2_electricity |-> 0, l3_electricity |-> 0,
     inner_temp |-> 20, outer_temp |-> 18, gun_state |-> 1, output_state |-> 0,
     errors |-> <<>>]

ActiveCharge ==
    [charge_kwh |-> 7, charge_id |-> "20240101120000", start_date |-> 1704110400,
     duration_seconds |-> 5400, current_state |-> 14]

FreshCharge ==
    [charge_kwh |-> 0, charge_id |-> "20240102080000", start_date |-> 1704182400,
     duration_seconds |-> 1, current_state |-> 13]

\* (configured max current, advertised max current) pairs of a device
AmpShapes == {<<10, 32>>, <<0, 20>>, <<0, 0>>, <<0, 8>>}

\* devices as the cooldown guard sees them: the meta-state varies
CommandDevices(serial) ==
    {MkEvse(serial, m, TRUE, TRUE, "Garage", 10, 32, NoState, NoCharge) : m \in MetaStates}

\* devices as the amperage policy sees them: the two current ceilings vary as well
AmpsDevices(serial) ==
    {MkEvse(serial, m, TRUE, TRUE, "Garage", a[1], a[2], NoState, NoCharge) :
        m \in MetaStates, a \in AmpShapes}

\* devices as the poll sees them: idle without a session, or charging with one
PollDevices(serial) ==
    {MkEvse(serial, "IDLE", TRUE, TRUE, "Garage", 10, 32, QuietState, NoCharge),
     MkEvse(serial, "CHARGING", TRUE, TRUE, "Garage", 10, 32, LiveState, ActiveCharge)}

\* devices handed to the projection: every optional part present or absent
ProjectDevices ==
    {MkEvse(s, m, o, o /\ l, n, 10, 32, st, ch) :
        s \in {"ABC123"}, m \in MetaStates, o \in BOOLEAN, l \in BOOLEAN,
        n \in {"", "Garage"}, st \in {NoState, QuietState, LiveState},
        ch \in {NoCharge, ActiveCharge, FreshCharge}}

----------------------------------------------------------------------------
(* EVSEClient._evse_to_dict *)

\* dict.update(u): the keys of u override
Update(d, u) == u @@ d

\* Python truthiness of an optional object: None is falsy
Truthy(obj) == "absent" \notin DOMAIN obj

\* lines 65-87: identity, information, configuration
base_fields(evse) ==
            [serial |-> evse.info.serial,
             ip |-> evse.info.ip,
             port |-> evse.info.port,
             last_seen |-> evse.last_seen,
             online |-> evse.online,
             logged_in |-> evse.logged_in,
             state |-> evse.meta_state,
             brand |-> evse.info.brand,
             model |-> evse.info.model,
             hardware_version |-> evse.info.hardware_version,
             software_version |-> evse.info.software_version,
             max_power |-> evse.info.max_power,
             max_electricity |-> evse.info.max_electricity,
             phases |-> evse.info.phases,
             name |-> IF evse.config.name # "" THEN evse.config.name ELSE "EVSEMaster",
             configured_max_electricity |-> evse.config.max_electricity,
             temperature_unit |-> evse.config.temperature_unit]

\* lines 89-120: the electrical state, or its defaults
electrical_fields(evse) ==
            IF Truthy(evse.state)
            THEN [current_power |-> evse.state.current_power,
                  voltage_l1 |-> evse.state.l1_voltage,
                  voltage_l2 |-> evse.state.l2_voltage,
                  voltage_l3 |-> evse.state.l3_voltage,
                  current_l1 |-> evse.state.l1_electricity,
                  current_l2 |-> evse.state.l2_electricity,
                  current_l3 |-> evse.state.l3_electricity,
                  temperature_inner |-> evse.state.inner_temp,
                  temperature_outer |-> evse.state.outer_temp,
                  gun_state |-> evse.state.gun_state,
                  output_state |-> evse.state.output_state,
                  errors |-> evse.state.errors]
            ELSE [current_power |-> 0,
                  voltage_l1 |-> 0,
                  voltage_l2 |-> 0,
                  voltage_l3 |-> 0,
                  current_l1 |-> 0,
                  current_l2 |-> 0,
                  current_l3 |-> 0,
                  temperature_inner |-> 0,
                  temperature_outer |-> 0,
                  gun_state |-> 0,
                  output_state |-> 0,
                  errors |-> <<>>]

\* variant: without a session the start date is left out
session_fields_partial(evse) ==
            IF Truthy(evse.current_charge)
            THEN [charge_kwh |-> evse.current_charge.charge_kwh,
                  charge_id |-> evse.current_charge.charge_id,
                  start_date |-> Some(evse.current_charge.start_date),
                  duration_seconds |-> evse.current_charge.duration_seconds,
                  charge_state |-> evse.current_charge.current_state]
            ELSE [charge_kwh |-> 0,
                  charge_id |-> "",
                  duration_seconds |-> 0,
                  charge_state |-> 0]

\* lines 122-138: the charging session, or its defaults
session_fields(evse) ==
            IF Truthy(evse.current_charge)
            THEN [charge_kwh |-> evse.current_charge.charge_kwh,
                  charge_id |-> evse.current_charge.charge_id,
                  start_date |-> Some(evse.current_charge.start_date),
                  duration_seconds |-> evse.current_charge.duration_seconds,
                  charge_state |-> evse.current_charge.current_state]
            ELSE [charge_kwh |-> 0,
                  charge_id |-> "",
                  start_date |-> None,
                  duration_seconds |-> 0,
                  charge_state |-> 0]

evse_to_dict(evse) ==
    Update(Update(base_fields(evse), electrical_fields(evse)), session_fields(evse))

\* EVSEClient.get_evse: the projection of a known device, else None
NoDict == [absent |-> TRUE]
get_evse(serial) ==
    IF serial \in DOMAIN evses THEN evse_to_dict(evses[serial]) ELSE NoDict

\* EVSEClient.get_all_evses: serial -> projection, for every registered device
get_all_evses == [serial \in DOMAIN evses |-> evse_to_dict(evses[serial])]

----------------------------------------------------------------------------
(* What a step returned and what it forwarded to the device link *)

NoCmd == [cmd |-> "none"]
NoEv == [op |-> "none"]
\* operation op on serial returned result, having forwarded sent (or NoCmd)
Ev(op, serial, result, sent) ==
    [op |-> op, serial |-> serial, result |-> result, sent |-> sent]
\* the same, with the amps argument of start_charging
EvStart(serial, amps, result, sent) ==
    Ev("start_charging", serial, result, sent) @@ [amps |-> amps]

cooldown == <<fast_change_protection, last_charge_change>>
coordinator == <<data, last_update_success, fetch>>
projection == <<evse_in, dict_out>>
entries == <<hass_data, setting_up>>

----------------------------------------------------------------------------
(* The anti-wear guard: EVSEClient, lines 243-306 *)

\* timedelta(minutes=m), in ticks
Minutes(m) == m * TicksPerMinute

\* variant: an identifier that was never set has no protection
get_fast_change_protection_unset_zero(serial) == Get(fast_change_protection, serial, 0)

get_fast_change_protection(serial) == Get(fast_change_protection, serial, 1)

\* variant: the boundary instant still counts as inside the cooldown
can_start_charge_inclusive(serial) ==
    LET protection_minutes == get_fast_change_protection(serial) IN
    IF protection_minutes = 0 THEN TRUE
    ELSE IF serial \notin DOMAIN last_charge_change THEN TRUE
    ELSE LET time_since_last == now - last_charge_change[serial]
             min_interval == Minutes(protection_minutes)
         IN  IF time_since_last <= min_interval THEN FALSE ELSE TRUE

can_start_charge(serial) ==
    LET protection_minutes == get_fast_change_protection(serial) IN
    IF protection_minutes = 0 THEN TRUE
    ELSE IF serial \notin DOMAIN last_charge_change THEN TRUE
    ELSE LET time_since_last == now - last_charge_change[serial]
             min_interval == Minutes(protection_minutes)
         IN  IF time_since_last < min_interval THEN FALSE ELSE TRUE

\* variant: the remaining time is returned without the clamp at zero
get_cooldown_remaining_unclamped(serial) ==
    LET protection_minutes == get_fast_change_protection(serial) IN
    IF protection_minutes = 0 THEN 0
    ELSE IF serial \notin DOMAIN last_charge_change THEN 0
    ELSE LET min_interval == Minutes(protection_minutes)
             elapsed == now - last_charge_change[serial]
         IN  min_interval - elapsed

\* variant: the remaining time is reported in whole minutes, rounded down
get_cooldown_remaining_whole_minutes(serial) ==
    LET protection_minutes == get_fast_change_protection(serial) IN
    IF protection_minutes = 0 THEN 0
    ELSE IF serial \notin DOMAIN last_charge_change THEN 0
    ELSE LET min_interval == Minutes(protection_minutes)
             elapsed == now - last_charge_change[serial]
             remaining == min_interval - elapsed
         IN  IF remaining < 0 THEN 0 ELSE Minutes(remaining \div TicksPerMinute)

\* get_cooldown_remaining, in ticks
get_cooldown_remaining(serial) ==
    LET protection_minutes == get_fast_change_protection(serial) IN
    IF protection_minutes = 0 THEN 0
    ELSE IF serial \notin DOMAIN last_charge_change THEN 0
    ELSE LET min_interval == Minutes(protection_minutes)
             elapsed == now - last_charge_change[serial]
             remaining == min_interval - elapsed
         IN  IF remaining < 0 THEN 0 ELSE remaining

set_fast_change_protection(serial, minutes) ==
    /\ fast_change_protection' = Put(fast_change_protection, serial, minutes)
    /\ ev' = Ev("set_fast_change_protection", serial, None, NoCmd)
    /\ UNCHANGED <<now, running, evses, last_charge_change, stopping, coordinator, projection, entries, starting>>

\* the dictionary after _record_charge_state_change(serial)
record_charge_state_change(serial) == Put(last_charge_change, serial, now)

----------------------------------------------------------------------------
(* The command facade: EVSEClient, lines 164-241 *)

\* variant: the fallback is the ceiling itself, without the cap of 16
safe_amps_uncapped(evse) ==
    IF evse.config.max_electricity > 0
    THEN evse.config.max_electricity
    ELSE IF evse.info.max_electricity > 0 THEN evse.info.max_electricity ELSE 32

\* the amperage start_charging forwards when amps is None
safe_amps(evse) ==
    IF evse.config.max_electricity > 0
    THEN evse.config.max_electricity
    ELSE LET max_amps == IF evse.info.max_electricity > 0
                         THEN evse.info.max_electricity ELSE 32
         IN  IF max_amps < 16 THEN max_amps ELSE 16

\* variant: the guard is consulted after the lookup and only logs
start_charging_ungated(serial, amps, single_phase, reply) ==
    /\ IF serial \notin DOMAIN evses
       THEN ev' = EvStart(serial, amps, FALSE, NoCmd)
       ELSE LET evse == evses[serial]
                a == IF amps = None THEN safe_amps(evse) ELSE amps[1]
            IN  ev' = EvStart(serial, amps, reply,
                              [cmd |-> "charge_start", amps |-> a,
                               single_phase |-> single_phase, reply |-> reply])
    /\ UNCHANGED <<now, running, evses, cooldown, stopping, coordinator, projection, entries, starting>>

\* variant: a start the link accepts is recorded as a charge state change
start_charging_recording(serial, amps, single_phase, reply) ==
    /\ IF ~can_start_charge(serial)
       THEN ev' = EvStart(serial, amps, FALSE, NoCmd) /\ UNCHANGED last_charge_change
       ELSE IF serial \notin DOMAIN evses
       THEN ev' = EvStart(serial, amps, FALSE, NoCmd) /\ UNCHANGED last_charge_change
       ELSE LET evse == evses[serial]
                a == IF amps = None THEN safe_amps(evse) ELSE amps[1]
            IN  /\ ev' = EvStart(serial, amps, reply,
                                 [cmd |-> "charge_start", amps |-> a,
                                  single_phase |-> single_phase, reply |-> reply])
                /\ last_charge_change' =
                      IF reply THEN record_charge_state_change(serial)
                      ELSE last_charge_change
    /\ UNCHANGED <<now, running, evses, fast_change_protection, stopping, coordinator, projection, entries, starting>>

\* reply is what evse.charge_start() answers when it is called
start_charging(serial, amps, single_phase, reply) ==
    /\ IF ~can_start_charge(serial)
       THEN ev' = EvStart(serial, amps, FALSE, NoCmd)
       ELSE IF serial \notin DOMAIN evses
       THEN ev' = EvStart(serial, amps, FALSE, NoCmd)
       ELSE LET evse == evses[serial]
                a == IF amps = None THEN safe_amps(evse) ELSE amps[1]
            IN  ev' = EvStart(serial, amps, reply,
                              [cmd |-> "charge_start", amps |-> a,
                               single_phase |-> single_phase, reply |-> reply])
    /\ UNCHANGED <<now, running, evses, cooldown, stopping, coordinator, projection, entries, starting>>

\* variant: a stop is refused during the cooldown, like a start
stop_charging_call_gated(serial) ==
    /\ serial \notin DOMAIN stopping
    /\ IF serial \notin DOMAIN evses \/ ~can_start_charge(serial)
       THEN /\ ev' = Ev("stop_charging", serial, FALSE, NoCmd)
            /\ UNCHANGED stopping
       ELSE LET evse == evses[serial]
                was_charging == evse.meta_state = "CHARGING"
            IN  /\ stopping' = Put(stopping, serial, [was_charging |-> was_charging])
                /\ ev' = Ev("stop_charging.await", serial, None, [cmd |-> "charge_stop"])
    /\ UNCHANGED <<now, running, evses, cooldown, coordinator, projection, entries, starting>>

\* stop_charging up to its await: the lookup, was_charging, the forwarded charge_stop
stop_charging_call(serial) ==
    /\ serial \notin DOMAIN stopping
    /\ IF serial \notin DOMAIN evses
       THEN /\ ev' = Ev("stop_charging", serial, FALSE, NoCmd)
            /\ UNCHANGED stopping
       ELSE LET evse == evses[serial]
                was_charging == evse.meta_state = "CHARGING"
            IN  /\ stopping' = Put(stopping, serial, [was_charging |-> was_charging])
                /\ ev' = Ev("stop_charging.await", serial, None, [cmd |-> "charge_stop"])
    /\ UNCHANGED <<now, running, evses, cooldown, coordinator, projection, entries, starting>>

\* variant: every successful stop is recorded, charging or not
stop_charging_return_always(serial, reply) ==
    /\ serial \in DOMAIN stopping
    /\ last_charge_change' =
          IF reply THEN record_charge_state_change(serial) ELSE last_charge_change
    /\ ev' = Ev("stop_charging", serial, reply, [cmd |-> "charge_stop", reply |-> reply])
    /\ stopping' = Drop(stopping, serial)
    /\ UNCHANGED <<now, running, evses, fast_change_protection, coordinator, projection, entries, starting>>

\* stop_charging from the reply of evse.charge_stop() to its return
stop_charging_return(serial, reply) ==
    /\ serial \in DOMAIN stopping
    /\ LET was_charging == stopping[serial].was_charging
           result == reply
       IN  /\ last_charge_change' =
                 IF result /\ was_charging
                 THEN record_charge_state_change(serial)
                 ELSE last_charge_change
           /\ ev' = Ev("stop_charging", serial, result,
                       [cmd |-> "charge_stop", reply |-> reply])
    /\ stopping' = Drop(stopping, serial)
    /\ UNCHANGED <<now, running, evses, fast_change_protection, coordinator, projection, entries, starting>>

\* variant: the forward is made without the lookup
forward_unchecked(op, serial, cmd, reply) ==
    /\ ev' = Ev(op, serial, reply, cmd @@ [reply |-> reply])
    /\ UNCHANGED <<now, running, evses, cooldown, stopping, coordinator, projection, entries, starting>>

\* login, set_max_current, set_name, sync_time: the lookup, then a thin forward
forward(op, serial, cmd, reply) ==
    /\ IF serial \notin DOMAIN evses
       THEN ev' = Ev(op, serial, FALSE, NoCmd)
       ELSE ev' = Ev(op, serial, reply, cmd @@ [reply |-> reply])
    /\ UNCHANGED <<now, running, evses, cooldown, stopping, coordinator, projection, entries, starting>>

login(serial, password, reply) ==
    forward("login", serial, [cmd |-> "login", password |-> password], reply)

set_max_current(serial, amps, reply) ==
    forward("set_max_current", serial, [cmd |-> "set_max_electricity", amps |-> amps], reply)

set_name(serial, name, reply) ==
    forward("set_name", serial, [cmd |-> "set_name", name |-> name], reply)

sync_time(serial, reply) ==
    forward("sync_time", serial, [cmd |-> "sync_time"], reply)

read_evse(serial) ==
    /\ ev' = Ev("get_evse", serial, get_evse(serial), NoCmd)
    /\ UNCHANGED <<now, running, evses, cooldown, stopping, coordinator, projection, entries, starting>>

\* a caller reads get_cooldown_remaining(serial)
read_cooldown_remaining(serial) ==
    /\ ev' = Ev("get_cooldown_remaining", serial, get_cooldown_remaining(serial), NoCmd)
    /\ UNCHANGED <<now, running, evses, cooldown, stopping, coordinator, projection, entries, starting>>

----------------------------------------------------------------------------
(* Lifecycle: EVSEClient.start / stop, lines 26-49 *)

\* start() up to its await: the check of running, then communicator.start() is called
start_call ==
    /\ starting < MaxStarting
    /\ IF running
       THEN /\ ev' = Ev("start", "", "returned", NoCmd)
            /\ UNCHANGED starting
       ELSE /\ starting' = starting + 1
            /\ ev' = Ev("start.await", "", None, [cmd |-> "start"])
    /\ UNCHANGED <<now, running, evses, cooldown, stopping, coordinator, projection, entries>>

\* start() from the outcome of communicator.start() to its return or re-raise
start_return(link_ok) ==
    /\ starting > 0
    /\ starting' = starting - 1
    /\ IF link_ok
       THEN /\ running' = TRUE
            /\ ev' = Ev("start", "", "returned", [cmd |-> "start", link_ok |-> link_ok])
       ELSE /\ UNCHANGED running
            /\ ev' = Ev("start", "", "raised", [cmd |-> "start", link_ok |-> link_ok])
    /\ UNCHANGED <<now, evses, cooldown, stopping, coordinator, projection, entries>>

\* start() run without another task in between: start_call, then start_return;
\* link_ok: communicator.start() returns; otherwise it raises and start() re-raises
start(link_ok) ==
    /\ IF running
       THEN /\ ev' = Ev("start", "", "returned", NoCmd)
            /\ UNCHANGED running
       ELSE IF link_ok
       THEN /\ running' = TRUE
            /\ ev' = Ev("start", "", "returned", [cmd |-> "start"])
       ELSE /\ UNCHANGED running
            /\ ev' = Ev("start", "", "raised", [cmd |-> "start"])
    /\ UNCHANGED <<now, evses, cooldown, stopping, coordinator, projection, entries, starting>>

\* communicator.stop(): the registry is kept or torn down as a whole
communicator_stop(registry) == {registry, EmptyDict}

\* variant: stopping the client also forgets the recorded stops
stop_forgetting ==
    /\ running' = FALSE
    /\ evses' \in communicator_stop(evses)
    /\ last_charge_change' = EmptyDict
    /\ ev' = Ev("stop", "", "returned", [cmd |-> "stop"])
    /\ UNCHANGED <<now, fast_change_protection, stopping, coordinator, projection, entries, starting>>

stop ==
    /\ running' = FALSE
    /\ evses' \in communicator_stop(evses)
    /\ ev' = Ev("stop", "", "returned", [cmd |-> "stop"])
    /\ UNCHANGED <<now, cooldown, stopping, coordinator, projection, entries, starting>>

----------------------------------------------------------------------------
(* The environment: the clock and the device link *)

tick ==
    /\ now < MaxNow
    /\ now' = now + 1
    /\ ev' = NoEv
    /\ UNCHANGED <<running, evses, cooldown, stopping, coordinator, projection, entries, starting>>

\* the started link reports a device: discovery, or new attributes of a known one
link_event(serial, evse) ==
    /\ running
    /\ evses' = Put(evses, serial, evse)
    /\ ev' = NoEv
    /\ UNCHANGED <<now, running, cooldown, stopping, coordinator, projection, entries, starting>>

----------------------------------------------------------------------------
(* Spec: the client's commands, guard and lifecycle, under a running clock *)

\* one coordinator per config entry, all sharing the client
Coordinators == {"entry1", "entry2"}
\* DataUpdateCoordinator.data before the first refresh: None
NoData == [absent |-> TRUE]

\* what a poll tick met: the outcome of the fetch ("none" before the first tick,
\* "fetched", "failed"), the mapping the client returned, client.running at the tick
Met(outcome, found, was_running) ==
    [outcome |-> outcome, found |-> found, running |-> was_running]

\* inputs of the commands
MinutesInputs == 0..MaxMinutes
AmpsInputs == {None, Some(0), Some(25)}

\* after EVSEClient.__init__ and EVSEDataUpdateCoordinator.__init__
InitClient ==
    /\ now = 0
    /\ running = FALSE
    /\ evses = EmptyDict
    /\ fast_change_protection = EmptyDict
    /\ last_charge_change = EmptyDict
    /\ stopping = EmptyDict
    /\ starting = 0
    /\ ev = NoEv

InitCoordinator ==
    /\ data = [c \in Coordinators |-> NoData]
    /\ last_update_success = [c \in Coordinators |-> TRUE]
    /\ fetch = [c \in Coordinators |-> Met("none", EmptyDict, FALSE)]

\* before any config entry is set up
InitEntries ==
    /\ hass_data = EmptyDict
    /\ setting_up = EmptyDict

Init ==
    /\ InitClient
    /\ InitCoordinator
    /\ InitEntries
    /\ evse_in = NoDict
    /\ dict_out = NoDict

Tick == tick
LinkEvent == \E serial \in LinkSerials : \E evse \in CommandDevices(serial) : link_event(serial, evse)
Start == \E link_ok \in BOOLEAN : start(link_ok)
Stop == stop
SetFastChangeProtection ==
    \E serial \in Serials, minutes \in MinutesInputs : set_fast_change_protection(serial, minutes)
StartCharging ==
    \E serial \in Serials, amps \in AmpsInputs, reply \in BOOLEAN :
        start_charging(serial, amps, FALSE, reply)
StopChargingCall == \E serial \in Serials : stop_charging_call(serial)
StopChargingReturn == \E serial \in Serials, reply \in BOOLEAN : stop_charging_return(serial, reply)
Login == \E serial \in Serials, reply \in BOOLEAN : login(serial, "secret", reply)
SetMaxCurrent == \E serial \in Serials, reply \in BOOLEAN : set_max_current(serial, 6, reply)
SetName == \E serial \in Serials, reply \in BOOLEAN : set_name(serial, "Carport", reply)
SyncTime == \E serial \in Serials, reply \in BOOLEAN : sync_time(serial, reply)
GetEvse == \E serial \in Serials : read_evse(serial)

Next ==
    \/ Tick
    \/ LinkEvent
    \/ Start
    \/ Stop
    \/ SetFastChangeProtection
    \/ StartCharging
    \/ StopChargingCall
    \/ StopChargingReturn
    \/ Login
    \/ SetMaxCurrent
    \/ SetName
    \/ SyncTime
    \/ GetEvse

Spec == Init /\ [][Next]_vars

----------------------------------------------------------------------------
(* SpecAmps: the commands against devices of every current ceiling, clock held *)

LinkEventAmps ==
    \E serial \in LinkSerials : \E evse \in AmpsDevices(serial) : link_event(serial, evse)

NextAmps ==
    \/ LinkEventAmps
    \/ Start
    \/ Stop
    \/ SetFastChangeProtection
    \/ StartCharging
    \/ StopChargingCall
    \/ StopChargingReturn

SpecAmps == Init /\ [][NextAmps]_vars

----------------------------------------------------------------------------
(* SpecCooldown: the guard, its setting and its countdown, under a running clock *)

GetCooldownRemaining == \E serial \in Serials : read_cooldown_remaining(serial)

NextCooldown ==
    \/ Tick
    \/ LinkEvent
    \/ Start
    \/ Stop
    \/ SetFastChangeProtection
    \/ StartCharging
    \/ StopChargingCall
    \/ StopChargingReturn
    \/ GetCooldownRemaining

SpecCooldown == Init /\ [][NextCooldown]_vars

----------------------------------------------------------------------------
(* SpecProtection: the protection setting, from the number entity and from any caller *)

\* EVSEFastChangeProtection: _attr_native_min_value, _attr_native_max_value
native_min_value == 0
native_max_value == 60

\* the values the number entity passes on: int(value) of a value of its range
EntityMinutes == MinutesInputs \cup {native_max_value}
\* values of the client's parameter minutes: int, outside the entity's range
OtherMinutes == {native_min_value - 1, native_max_value + 1}

\* EVSEFastChangeProtection.async_set_native_value: int(value), handed to the client
SetNativeValue ==
    \E serial \in Serials, value \in EntityMinutes : set_fast_change_protection(serial, value)
\* a call of EVSEClient.set_fast_change_protection by any other caller
SetFastChangeProtectionAny ==
    \E serial \in Serials, minutes \in OtherMinutes : set_fast_change_protection(serial, minutes)

NextProtection ==
    \/ Start
    \/ Stop
    \/ LinkEvent
    \/ SetNativeValue
    \/ SetFastChangeProtectionAny
    \/ GetCooldownRemaining

SpecProtection == Init /\ [][NextProtection]_vars

----------------------------------------------------------------------------
(* SpecStart: start() calls of several tasks, interleaved at the await, stop(), and
   the reads and logins a setup makes on the started client *)

StartCall == start_call
StartReturn == \E link_ok \in BOOLEAN : start_return(link_ok)

NextStart ==
    \/ Tick
    \/ StartCall
    \/ StartReturn
    \/ Stop
    \/ LinkEvent
    \/ GetEvse
    \/ Login

SpecStart == Init /\ [][NextStart]_vars

----------------------------------------------------------------------------
(* SpecAwait: the charge commands while time passes.  The clock is the only step
   that is bound to happen: the reply of the link is awaited without a timer
   (evse_client.py lines 198 and 208), so nothing obliges StopChargingReturn. *)

NextAwait ==
    \/ Tick
    \/ Start
    \/ LinkEvent
    \/ StartCharging
    \/ StopChargingCall
    \/ StopChargingReturn

SpecAwait == Init /\ [][NextAwait]_vars /\ WF_vars(Tick)

----------------------------------------------------------------------------
(* The polling coordinator: EVSEDataUpdateCoordinator, __init__.py lines 27-56 *)

\* what the except branch returns: the previous data if there is any, else {}
previous_data(c) ==
    IF data[c] # NoData /\ data[c] # EmptyDict THEN data[c] ELSE EmptyDict

\* variant: a failed fetch publishes an empty mapping
async_update_data_drop(c, raises) ==
    IF ~raises
    THEN [raised |-> FALSE, value |-> get_all_evses]
    ELSE [raised |-> FALSE, value |-> EmptyDict]

\* variant: a failed fetch is raised to the framework (UpdateFailed)
async_update_data_raising(c, raises) ==
    IF ~raises
    THEN [raised |-> FALSE, value |-> get_all_evses]
    ELSE [raised |-> TRUE, value |-> EmptyDict]

\* variant: the client's running flag is checked before the fetch
async_update_data_guarded(c, raises) ==
    IF ~running \/ raises
    THEN [raised |-> FALSE, value |-> previous_data(c)]
    ELSE [raised |-> FALSE, value |-> get_all_evses]

\* _async_update_data; raises: client.get_all_evses() raises
async_update_data(c, raises) ==
    IF ~raises
    THEN LET fetched == get_all_evses IN
         IF fetched = EmptyDict
         THEN [raised |-> FALSE, value |-> EmptyDict]
         ELSE [raised |-> FALSE, value |-> fetched]
    ELSE [raised |-> FALSE, value |-> previous_data(c)]

\* one poll tick of coordinator c: DataUpdateCoordinator stores what _async_update_data
\* returns and sets last_update_success; had it raised, data stays and the flag drops
refresh(c, raises) ==
    LET update == async_update_data(c, raises) IN
    /\ IF update.raised
       THEN /\ UNCHANGED data
            /\ last_update_success' = [last_update_success EXCEPT ![c] = FALSE]
       ELSE /\ data' = [data EXCEPT ![c] = update.value]
            /\ last_update_success' = [last_update_success EXCEPT ![c] = TRUE]
    /\ fetch' = [fetch EXCEPT ![c] = IF raises THEN Met("failed", EmptyDict, running)
                                               ELSE Met("fetched", get_all_evses, running)]
    /\ ev' = NoEv
    /\ UNCHANGED <<now, running, evses, cooldown, stopping, projection, entries, starting>>

LinkEventPoll ==
    \E serial \in Serials : \E evse \in PollDevices(serial) : link_event(serial, evse)
Refresh == \E c \in Coordinators, raises \in BOOLEAN : refresh(c, raises)

NextPoll ==
    \/ Start
    \/ Stop
    \/ LinkEventPoll
    \/ Refresh

SpecPoll == Init /\ [][NextPoll]_vars

----------------------------------------------------------------------------
(* SpecProject: _evse_to_dict applied to one device of every shape *)

InitProject ==
    /\ InitClient
    /\ InitCoordinator
    /\ InitEntries
    /\ evse_in \in ProjectDevices
    /\ dict_out = NoDict

Project ==
    /\ dict_out = NoDict
    /\ dict_out' = evse_to_dict(evse_in)
    /\ UNCHANGED <<now, running, evses, cooldown, stopping, ev, coordinator, evse_in, entries, starting>>

NextProject == Project

SpecProject == InitProject /\ [][NextProject]_vars

----------------------------------------------------------------------------
(* Config entries: async_setup_entry / async_unload_entry, __init__.py lines 58-153.
   Every entry uses the one client of get_evse_client() and gets a coordinator of
   its own; the entry ids are the elements of Coordinators. *)

\* entry.data of the config entries: one with a password, one without
EntryData ==
    [entry1 |-> [serial |-> "ABC123", password |-> "secret", name |-> "Garage"],
     entry2 |-> [serial |-> "XYZ789", password |-> "", name |-> ""]]

\* range(3): the number of login attempts of a setup
LoginAttempts == 3

\* what an entry handler returned or reached, and what it called on the client
EvEntry(op, entry, result, sent) ==
    [op |-> op, entry |-> entry, result |-> result, sent |-> sent]

\* `if serial and password`
wants_login(entry) == EntryData[entry].serial # "" /\ EntryData[entry].password # ""

\* the login loop is over: not entered, left by break, or exhausted
login_loop_done(entry) ==
    \/ ~wants_login(entry)
    \/ setting_up[entry].success
    \/ setting_up[entry].attempt = LoginAttempts

\* async_setup_entry up to asyncio.sleep(3): the client is started unless it runs;
\* link_ok is whether communicator.start() returns, as in start(link_ok)
async_setup_entry_call(entry, link_ok) ==
    /\ entry \notin DOMAIN setting_up
    /\ entry \notin DOMAIN hass_data
    /\ IF ~running /\ ~link_ok
       THEN /\ ev' = EvEntry("async_setup_entry", entry, FALSE,
                             [cmd |-> "start", link_ok |-> link_ok])
            /\ UNCHANGED <<running, setting_up>>
       ELSE /\ running' = TRUE
            /\ setting_up' = Put(setting_up, entry, [attempt |-> 0, success |-> FALSE])
            /\ ev' = EvEntry("async_setup_entry.await", entry, None,
                             IF running THEN NoCmd
                             ELSE [cmd |-> "start", link_ok |-> link_ok])
    /\ UNCHANGED <<now, evses, cooldown, stopping, coordinator, projection, hass_data, starting>>

\* one pass of the login loop: client.login(serial, password), then break or sleep;
\* reply is what evse.login() answers when it is called
async_setup_entry_login(entry, reply) ==
    /\ entry \in DOMAIN setting_up
    /\ ~login_loop_done(entry)
    /\ LET serial == EntryData[entry].serial
           success == IF serial \notin DOMAIN evses THEN FALSE ELSE reply
       IN  /\ setting_up' = Put(setting_up, entry,
                                [attempt |-> setting_up[entry].attempt + 1,
                                 success |-> success])
           /\ ev' = EvEntry("async_setup_entry.login", entry, success,
                            IF serial \notin DOMAIN evses THEN NoCmd
                            ELSE [cmd |-> "login",
                                  password |-> EntryData[entry].password,
                                  reply |-> reply])
    /\ UNCHANGED <<now, running, evses, cooldown, stopping, coordinator, projection, hass_data, starting>>

\* variant: a setup whose logins all failed gives up and returns False
async_setup_entry_finish_strict(entry, raises) ==
    /\ entry \in DOMAIN setting_up
    /\ login_loop_done(entry)
    /\ IF wants_login(entry) /\ ~setting_up[entry].success
       THEN /\ ev' = EvEntry("async_setup_entry", entry, FALSE,
                             [logins |-> setting_up[entry].attempt,
                              logged_in |-> setting_up[entry].success])
            /\ UNCHANGED <<coordinator, hass_data>>
       ELSE /\ data' = [data EXCEPT ![entry] = IF raises THEN EmptyDict ELSE get_all_evses]
            /\ last_update_success' = [last_update_success EXCEPT ![entry] = TRUE]
            /\ fetch' = [fetch EXCEPT ![entry] =
                            IF raises THEN Met("failed", EmptyDict, running)
                            ELSE Met("fetched", get_all_evses, running)]
            /\ hass_data' = Put(hass_data, entry,
                                [serial |-> EntryData[entry].serial,
                                 password |-> EntryData[entry].password,
                                 base_name |-> "EVSEMaster"])
            /\ ev' = EvEntry("async_setup_entry", entry, TRUE,
                             [logins |-> setting_up[entry].attempt,
                              logged_in |-> setting_up[entry].success])
    /\ setting_up' = Drop(setting_up, entry)
    /\ UNCHANGED <<now, running, evses, cooldown, stopping, projection, starting>>

\* async_setup_entry after the login loop: a new coordinator and its first refresh
\* (raises: get_all_evses() raises, which _async_update_data turns into {}), the
\* entry is stored in hass.data[DOMAIN], the platforms are forwarded, True is returned
async_setup_entry_finish(entry, raises) ==
    /\ entry \in DOMAIN setting_up
    /\ login_loop_done(entry)
    /\ data' = [data EXCEPT ![entry] = IF raises THEN EmptyDict ELSE get_all_evses]
    /\ last_update_success' = [last_update_success EXCEPT ![entry] = TRUE]
    /\ fetch' = [fetch EXCEPT ![entry] =
                    IF raises THEN Met("failed", EmptyDict, running)
                    ELSE Met("fetched", get_all_evses, running)]
    /\ hass_data' = Put(hass_data, entry,
                        [serial |-> EntryData[entry].serial,
                         password |-> EntryData[entry].password,
                         base_name |-> IF EntryData[entry].name # ""
                                       THEN EntryData[entry].name ELSE "EVSEMaster"])
    /\ ev' = EvEntry("async_setup_entry", entry, TRUE,
                     [logins |-> setting_up[entry].attempt,
                      logged_in |-> setting_up[entry].success])
    /\ setting_up' = Drop(setting_up, entry)
    /\ UNCHANGED <<now, running, evses, cooldown, stopping, projection, starting>>

\* variant: every successful unload stops the client
async_unload_entry_always_stops(entry, unload_ok) ==
    /\ entry \in DOMAIN hass_data
    /\ IF unload_ok
       THEN /\ hass_data' = Drop(hass_data, entry)
            /\ running' = FALSE
            /\ evses' \in communicator_stop(evses)
            /\ ev' = EvEntry("async_unload_entry", entry, TRUE, [cmd |-> "stop"])
       ELSE /\ ev' = EvEntry("async_unload_entry", entry, FALSE, NoCmd)
            /\ UNCHANGED <<hass_data, running, evses>>
    /\ UNCHANGED <<now, cooldown, stopping, coordinator, projection, setting_up, starting>>

\* async_unload_entry of a loaded entry; unload_ok is what async_unload_platforms
\* returns; client.stop() as in stop
async_unload_entry(entry, unload_ok) ==
    /\ entry \in DOMAIN hass_data
    /\ IF unload_ok
       THEN /\ hass_data' = Drop(hass_data, entry)
            /\ IF Drop(hass_data, entry) = EmptyDict
               THEN /\ running' = FALSE
                    /\ evses' \in communicator_stop(evses)
                    /\ ev' = EvEntry("async_unload_entry", entry, TRUE, [cmd |-> "stop"])
               ELSE /\ ev' = EvEntry("async_unload_entry", entry, TRUE, NoCmd)
                    /\ UNCHANGED <<running, evses>>
       ELSE /\ ev' = EvEntry("async_unload_entry", entry, FALSE, NoCmd)
            /\ UNCHANGED <<hass_data, running, evses>>
    /\ UNCHANGED <<now, cooldown, stopping, coordinator, projection, setting_up, starting>>

\* the link reports a device to the started client
LinkEventSetup ==
    \E serial \in LinkSerials : \E evse \in PollDevices(serial) : link_event(serial, evse)
SetupCall == \E entry \in Coordinators, link_ok \in BOOLEAN : async_setup_entry_call(entry, link_ok)
SetupLogin == \E entry \in Coordinators, reply \in BOOLEAN : async_setup_entry_login(entry, reply)
SetupFinish == \E entry \in Coordinators, raises \in BOOLEAN : async_setup_entry_finish(entry, raises)
Unload == \E entry \in Coordinators, unload_ok \in BOOLEAN : async_unload_entry(entry, unload_ok)

NextSetup ==
    \/ LinkEventSetup
    \/ SetupCall
    \/ SetupLogin
    \/ SetupFinish
    \/ Unload

SpecSetup == Init /\ [][NextSetup]_vars

----------------------------------------------------------------------------
(* Claims about the cooldown guard and the charge commands *)

\* a stop was recorded for serial
Recorded(serial) == serial \in DOMAIN last_charge_change
\* the step taken is a start_charging(serial, ...)
StartStep(serial) == ev'.op = "start_charging" /\ ev'.serial = serial
\* the step taken is the invocation of stop_charging(serial), up to its await or its
\* immediate return
StopCallStep(serial) ==
    /\ ev'.op \in {"stop_charging", "stop_charging.await"}
    /\ ev'.serial = serial
    /\ serial \notin DOMAIN stopping
\* the step taken is the return of a stop_charging(serial) that awaited the link
StopReturnStep(serial) == serial \in DOMAIN stopping /\ serial \notin DOMAIN stopping'

\* C1: at every instant and for every identifier, canStart is true exactly when the
\* protection is 0, or no stop was recorded, or at least protectionMinutes have passed
\* since the recorded stop: false strictly before lastStop + protection, true from that
\* instant on; and right after the protection is set to 0 it is true whatever was recorded.
C1_CanStartIffElapsed ==
    \A serial \in Serials :
        LET minutes == get_fast_change_protection(serial) IN
        /\ can_start_charge(serial) <=>
              \/ minutes = 0
              \/ ~Recorded(serial)
              \/ now - last_charge_change[serial] >= minutes * TicksPerMinute
        /\ (minutes > 0 /\ Recorded(serial)) =>
              /\ now < last_charge_change[serial] + minutes * TicksPerMinute
                    => ~can_start_charge(serial)
              /\ now >= last_charge_change[serial] + minutes * TicksPerMinute
                    => can_start_charge(serial)
        /\ (ev.op = "set_fast_change_protection" /\ ev.serial = serial /\ minutes = 0)
              => can_start_charge(serial)

\* a stop is recorded, the protection is armed, and the clock stands exactly at the end
\* of the cooldown: the first instant at which a start is allowed again
C1_Witness ==
    \E serial \in Serials :
        /\ Recorded(serial)
        /\ get_fast_change_protection(serial) > 0
        /\ now = last_charge_change[serial] + get_fast_change_protection(serial) * TicksPerMinute
        /\ can_start_charge(serial)

\* C2: start_charging fails closed: called while canStart is false it returns false and
\* forwards nothing; it forwards a charge_start exactly when canStart is true and the
\* device is known.
C2_StartFailsClosed ==
    [][\A serial \in Serials :
          StartStep(serial) =>
              /\ ~can_start_charge(serial) => (ev'.result = FALSE /\ ev'.sent = NoCmd)
              /\ ev'.sent.cmd \in {"none", "charge_start"}
              /\ ev'.sent.cmd = "charge_start"
                    <=> (can_start_charge(serial) /\ serial \in DOMAIN evses)]_vars

\* a start was forwarded for a device with a recorded stop and an armed protection,
\* once the cooldown had run out
C2_Witness ==
    /\ ev.op = "start_charging"
    /\ ev.sent.cmd = "charge_start"
    /\ Recorded(ev.serial)
    /\ get_fast_change_protection(ev.serial) > 0

\* C3: stop_charging is never gated: invoked for a known device it forwards charge_stop
\* in every cooldown state (it returns at once only for an unknown device), and it
\* returns what the link answered.
C3_StopNeverGated ==
    [][\A serial \in Serials :
          /\ (StopCallStep(serial) /\ serial \in DOMAIN evses) =>
                /\ ev'.op = "stop_charging.await"
                /\ ev'.sent = [cmd |-> "charge_stop"]
                /\ serial \in DOMAIN stopping'
          /\ (StopCallStep(serial) /\ ev'.op = "stop_charging") =>
                serial \notin DOMAIN evses
          /\ StopReturnStep(serial) =>
                /\ ev'.op = "stop_charging"
                /\ ev'.sent.cmd = "charge_stop"
                /\ ev'.result = ev'.sent.reply]_vars

\* a charge_stop was forwarded while the device's cooldown was running (a start would
\* have been refused)
C3_Witness ==
    /\ ev.op = "stop_charging.await"
    /\ ev.sent.cmd = "charge_stop"
    /\ ~can_start_charge(ev.serial)

\* C4: stop_charging records a stop (lastStop = now) exactly when the meta-state read at
\* its invocation was CHARGING and the forwarded charge_stop succeeded; otherwise it
\* leaves every lastStop as it was.
C4_RecordsOnlyChargingStop ==
    [][\A serial \in Serials :
          /\ (StopCallStep(serial) /\ serial \in DOMAIN evses) =>
                /\ stopping'[serial].was_charging = (evses[serial].meta_state = "CHARGING")
                /\ UNCHANGED last_charge_change
          /\ (StopCallStep(serial) /\ serial \notin DOMAIN evses) =>
                UNCHANGED last_charge_change
          /\ StopReturnStep(serial) =>
                IF stopping[serial].was_charging /\ ev'.sent.reply
                THEN /\ Recorded(serial)'
                     /\ last_charge_change'[serial] = now
                     /\ \A other \in Serials \ {serial} :
                           /\ Recorded(other)' <=> Recorded(other)
                           /\ Recorded(other) =>
                                 last_charge_change'[other] = last_charge_change[other]
                ELSE UNCHANGED last_charge_change]_vars

\* a stop of a device that was not charging succeeded and no stop is recorded for it
C4_Witness ==
    /\ ev.op = "stop_charging"
    /\ ev.sent.cmd = "charge_stop"
    /\ ev.sent.reply
    /\ ~Recorded(ev.serial)

\* C5: an explicit amps value is forwarded unchanged; without one the forwarded value is
\* the configured max current when positive, else min(D, 16) with D the advertised max
\* current when positive and 32 otherwise: (absent,10,32) -> 10, (absent,0,20) -> 16,
\* (absent,0,0) -> 16, (25,*,*) -> 25, and never more than 16 without a configured value.
C5_AmperageResolved ==
    (ev.op = "start_charging" /\ ev.sent.cmd = "charge_start") =>
        LET evse == evses[ev.serial]
            configured == evse.config.max_electricity
            advertised == evse.info.max_electricity
            D == IF advertised > 0 THEN advertised ELSE 32
            forwarded == ev.sent.amps
        IN  /\ ev.amps # None => forwarded = ev.amps[1]
            /\ (ev.amps = None /\ configured > 0) => forwarded = configured
            /\ (ev.amps = None /\ ~(configured > 0)) =>
                  /\ forwarded = IF D < 16 THEN D ELSE 16
                  /\ forwarded <= 16
            /\ (ev.amps = None /\ configured = 10 /\ advertised = 32) => forwarded = 10
            /\ (ev.amps = None /\ configured = 0 /\ advertised = 20) => forwarded = 16
            /\ (ev.amps = None /\ configured = 0 /\ advertised = 0) => forwarded = 16
            /\ ev.amps = Some(25) => forwarded = 25

\* a start without amps was forwarded for a device without configured value that
\* advertises 20 A
C5_Witness ==
    /\ ev.op = "start_charging"
    /\ ev.sent.cmd = "charge_start"
    /\ ev.amps = None
    /\ evses[ev.serial].config.max_electricity = 0
    /\ evses[ev.serial].info.max_electricity = 20
    /\ ev.sent.amps = 16

----------------------------------------------------------------------------
(* Claims about the polling coordinator *)

\* the step taken is a poll tick of coordinator c that left a trace
PollStep(c) ==
    \/ fetch'[c] # fetch[c]
    \/ data'[c] # data[c]
    \/ last_update_success'[c] # last_update_success[c]
\* what coordinator c holds after a tick
Stored(c) == <<data[c], last_update_success[c]>>
Failed(c) == fetch[c].outcome = "failed"
FetchedEmpty(c) == fetch[c].outcome = "fetched" /\ fetch[c].found = EmptyDict

\* C6: a poll tick whose fetch fails once a mapping was published publishes that mapping
\* again, unchanged, and does not raise; there is no terminal failure state: in every
\* state every coordinator can poll again, and a tick whose fetch succeeds publishes the
\* fresh mapping.
C6_FailedTickRepublishes ==
    /\ [](\A c \in Coordinators : ENABLED refresh(c, FALSE))
    /\ [][\A c \in Coordinators :
             PollStep(c) =>
                 /\ last_update_success'[c]
                 /\ (fetch'[c].outcome = "failed" /\ data[c] # NoData) => data'[c] = data[c]
                 /\ fetch'[c].outcome = "fetched" =>
                       (data'[c] = get_all_evses /\ fetch'[c].found = get_all_evses)]_vars

\* a coordinator's last fetch failed and it still publishes a non-empty mapping that is
\* no longer what the registry holds
C6_Witness ==
    \E c \in Coordinators :
        /\ Failed(c)
        /\ data[c] # EmptyDict
        /\ data[c] # get_all_evses

\* C7 as claimed: an empty successful poll publishes an empty mapping, and what a
\* coordinator stores after a failed tick always differs from what a coordinator stores
\* after an empty successful tick.
C7_FailedAndEmptyDistinguishable ==
    /\ \A c \in Coordinators : FetchedEmpty(c) => data[c] = EmptyDict
    /\ \A c1, c2 \in Coordinators :
          (Failed(c1) /\ FetchedEmpty(c2)) => Stored(c1) # Stored(c2)

\* C7 as amended: an empty successful poll publishes an empty mapping; the stored state
\* after a failed tick differs from the stored state after an empty successful tick
\* exactly when the failed tick republished a non-empty mapping (no flag tells them apart:
\* last_update_success is true after both).
C7_DistinguishableOnlyByMapping ==
    /\ \A c \in Coordinators : FetchedEmpty(c) => data[c] = EmptyDict
    /\ \A c1, c2 \in Coordinators :
          (Failed(c1) /\ FetchedEmpty(c2)) =>
              (Stored(c1) # Stored(c2) <=> data[c1] # EmptyDict)

\* one coordinator's last fetch failed, the other's succeeded and found no device, and
\* both store the same
C7_Witness ==
    \E c1, c2 \in Coordinators :
        /\ Failed(c1)
        /\ FetchedEmpty(c2)
        /\ Stored(c1) = Stored(c2)

\* C8 as claimed: a poll tick that runs while the client is not running keeps the
\* mapping the previous, successful tick published.
C8_NotRunningRetains ==
    [][\A c \in Coordinators :
          (PollStep(c) /\ ~running /\ fetch[c].outcome = "fetched") =>
              data'[c] = data[c]]_vars

\* C8 as amended: a poll tick that runs while the client is not running publishes what
\* get_all_evses() returns, as fresh data; the previous mapping is kept only when the
\* fetch raises.
C8_NotRunningPublishesFetch ==
    [][\A c \in Coordinators :
          (PollStep(c) /\ ~running) =>
              /\ fetch'[c].outcome = "fetched" => data'[c] = get_all_evses
              /\ (fetch'[c].outcome = "failed" /\ data[c] # NoData) => data'[c] = data[c]]_vars

\* a tick that ran while the client was not running published what it fetched, and that
\* is not the mapping another coordinator fetched while the client was running
C8_Witness ==
    \E c, other \in Coordinators :
        /\ fetch[c].outcome = "fetched"
        /\ ~fetch[c].running
        /\ data[c] = fetch[c].found
        /\ fetch[other].outcome = "fetched"
        /\ fetch[other].running
        /\ data[other] # EmptyDict
        /\ data[other] # data[c]

----------------------------------------------------------------------------
(* Claims about unknown identifiers and the published record *)

FacadeOps ==
    {"login", "start_charging", "stop_charging", "stop_charging.await",
     "set_max_current", "set_name", "sync_time", "get_evse"}

\* the step taken invokes a facade operation for serial
FacadeCallStep(serial) ==
    /\ ev'.op \in FacadeOps
    /\ ev'.serial = serial
    /\ ev'.op = "stop_charging" => serial \notin DOMAIN stopping

\* C9: invoked for an identifier that is not in the registry, login, start_charging,
\* stop_charging, set_max_current, set_name and sync_time return false and get_evse
\* returns None; nothing is forwarded to the link and no cooldown state changes,
\* whatever the cooldown state of the identifier.
C9_UnknownIdFails ==
    [][\A serial \in Serials :
          (FacadeCallStep(serial) /\ serial \notin DOMAIN evses) =>
              /\ ev'.op # "stop_charging.await"
              /\ IF ev'.op = "get_evse" THEN ev'.result = NoDict ELSE ev'.result = FALSE
              /\ ev'.sent = NoCmd
              /\ UNCHANGED cooldown
              /\ UNCHANGED stopping]_vars

\* a login for an identifier the registry does not hold, whose protection was
\* configured, returned false with nothing forwarded
C9_Witness ==
    /\ ev.op = "login"
    /\ ev.serial \notin DOMAIN evses
    /\ ev.serial \in DOMAIN fast_change_protection
    /\ ev.result = FALSE
    /\ ev.sent = NoCmd

RecordKeys ==
    {"serial", "ip", "port", "last_seen", "online", "logged_in", "state", "brand",
     "model", "hardware_version", "software_version", "max_power", "max_electricity",
     "phases", "name", "configured_max_electricity", "temperature_unit",
     "current_power", "voltage_l1", "voltage_l2", "voltage_l3", "current_l1",
     "current_l2", "current_l3", "temperature_inner", "temperature_outer",
     "gun_state", "output_state", "errors", "charge_kwh", "charge_id", "start_date",
     "duration_seconds", "charge_state"}

\* C10: the projected record has exactly the 34 documented keys whatever the device;
\* without electrical state the electrical, thermal and error fields are 0 and [];
\* the charge fields are the session's attributes when a session is active and
\* 0, '', None, 0, 0 when none is.
C10_RecordShape ==
    dict_out # NoDict =>
        /\ DOMAIN dict_out = RecordKeys
        /\ Cardinality(DOMAIN dict_out) = 34
        /\ ~Truthy(evse_in.state) =>
              /\ \A k \in {"current_power", "voltage_l1", "voltage_l2", "voltage_l3",
                           "current_l1", "current_l2", "current_l3", "temperature_inner",
                           "temperature_outer", "gun_state", "output_state"} :
                    dict_out[k] = 0
              /\ dict_out.errors = <<>>
        /\ Truthy(evse_in.current_charge) =>
              /\ dict_out.charge_kwh = evse_in.current_charge.charge_kwh
              /\ dict_out.charge_id = evse_in.current_charge.charge_id
              /\ dict_out.start_date = Some(evse_in.current_charge.start_date)
              /\ dict_out.duration_seconds = evse_in.current_charge.duration_seconds
              /\ dict_out.charge_state = evse_in.current_charge.current_state
        /\ ~Truthy(evse_in.current_charge) =>
              /\ dict_out.charge_kwh = 0
              /\ dict_out.charge_id = ""
              /\ dict_out.start_date = None
              /\ dict_out.duration_seconds = 0
              /\ dict_out.charge_state = 0

\* a device without electrical state and without a session was projected
C10_Witness ==
    /\ dict_out # NoDict
    /\ ~Truthy(evse_in.state)
    /\ ~Truthy(evse_in.current_charge)

----------------------------------------------------------------------------
(* Claims about the protection setting and the frame of the operations *)

\* the step taken is a set_fast_change_protection(serial, ...)
SetProtectionStep(serial) ==
    ev'.op = "set_fast_change_protection" /\ ev'.serial = serial

\* C11: get_fast_change_protection returns 1 for every identifier that was never set;
\* after set_fast_change_protection(serial, minutes) it returns minutes, and it keeps
\* its answer over every step that is not a set for that identifier; a device that was
\* never set and has a recorded stop is refused until one minute after that stop.
C11_ProtectionDefaultAndSet ==
    [][\A serial \in Serials :
          /\ serial \notin DOMAIN fast_change_protection =>
                /\ get_fast_change_protection(serial) = 1
                /\ Recorded(serial) =>
                      (can_start_charge(serial) <=>
                          now - last_charge_change[serial] >= 1 * TicksPerMinute)
          /\ \A minutes \in MinutesInputs :
                set_fast_change_protection(serial, minutes) =>
                    get_fast_change_protection(serial)' = minutes
          /\ ~SetProtectionStep(serial) =>
                get_fast_change_protection(serial)' = get_fast_change_protection(serial)]_vars

\* a device whose protection was never set is refused a start within the minute after
\* its recorded stop, while another identifier was set to 0 and reads 0
C11_Witness ==
    /\ ev.op = "start_charging"
    /\ ev.serial \notin DOMAIN fast_change_protection
    /\ Recorded(ev.serial)
    /\ now - last_charge_change[ev.serial] < TicksPerMinute
    /\ ev.result = FALSE
    /\ ev.sent = NoCmd
    /\ \E other \in DOMAIN fast_change_protection :
          get_fast_change_protection(other) = 0

\* the step taken is a stop() of the client
ClientStopStep == ev'.op = "stop"

\* C12: stop() can be invoked in every state, started or not and right after another
\* stop(); it returns with the client stopped and changes neither the protection nor
\* the recorded stop of any device, so get_fast_change_protection, _can_start_charge
\* and get_cooldown_remaining answer after it as they did before it.
C12_StopIdempotentKeepsCooldown ==
    [][/\ ENABLED stop
       /\ ClientStopStep =>
             /\ running' = FALSE
             /\ ev'.result = "returned"
             /\ UNCHANGED cooldown
             /\ \A serial \in Serials :
                   /\ get_fast_change_protection(serial)' = get_fast_change_protection(serial)
                   /\ can_start_charge(serial)' = can_start_charge(serial)
                   /\ get_cooldown_remaining(serial)' = get_cooldown_remaining(serial)]_vars

\* the client was stopped while a device is inside its cooldown: the stop is still
\* recorded and the guard still refuses
C12_Witness ==
    /\ ev.op = "stop"
    /\ ~running
    /\ \E serial \in Serials :
          /\ Recorded(serial)
          /\ serial \in DOMAIN fast_change_protection
          /\ ~can_start_charge(serial)
          /\ get_cooldown_remaining(serial) > 0

\* C17: a start_charging step, whether refused by the guard, failed or forwarded, and
\* a set_fast_change_protection step leave the recorded stop of every device
\* unchanged; a set_fast_change_protection(serial, ...) changes only the protection of
\* serial; the recorded stop of a device changes only in a step that is the return of
\* a stop_charging for that device.
C17_OnlyStopArmsGuard ==
    [][\A serial \in Serials :
          /\ StartStep(serial) => UNCHANGED last_charge_change
          /\ SetProtectionStep(serial) =>
                /\ UNCHANGED <<last_charge_change, running, evses, stopping, coordinator>>
                /\ \A other \in Serials \ {serial} :
                      /\ (other \in DOMAIN fast_change_protection') <=>
                            (other \in DOMAIN fast_change_protection)
                      /\ get_fast_change_protection(other)' =
                            get_fast_change_protection(other)
          /\ (Recorded(serial)' # Recorded(serial)
                \/ (Recorded(serial) /\
                      last_charge_change'[serial] # last_charge_change[serial]))
                => StopReturnStep(serial) /\ ev'.op = "stop_charging"]_vars

\* a start was forwarded and accepted by the link for a device with a recorded stop
\* and a positive protection that has since been set again: the stop is still recorded
C17_Witness ==
    /\ ev.op = "start_charging"
    /\ ev.result = TRUE
    /\ ev.sent # NoCmd
    /\ Recorded(ev.serial)
    /\ ev.serial \in DOMAIN fast_change_protection
    /\ get_fast_change_protection(ev.serial) > 0
    /\ last_charge_change[ev.serial] < now

----------------------------------------------------------------------------
(* Claims about the remaining cooldown *)

\* the step taken is a read of get_cooldown_remaining(serial)
RemainingStep(serial) == ev'.op = "get_cooldown_remaining" /\ ev'.serial = serial

\* max(0, protection - (now - last stop)), in ticks; 0 without protection or stop
RemainingExpected(serial) ==
    LET minutes == get_fast_change_protection(serial) IN
    IF minutes = 0 \/ ~Recorded(serial) THEN 0
    ELSE LET left == minutes * TicksPerMinute - (now - last_charge_change[serial])
         IN  IF left > 0 THEN left ELSE 0

\* C18: get_cooldown_remaining(serial) is max(0, protection - (now - last stop)) and
\* never negative; it is 0 when the protection is 0 or no stop is recorded; half a
\* minute after the stop of a device with protection 1 it is half a minute, and past
\* the minute it is 0; a read returns that value and changes nothing.
C18_RemainingIsClampedDifference ==
    [][\A serial \in Serials :
          /\ get_cooldown_remaining(serial) = RemainingExpected(serial)
          /\ get_cooldown_remaining(serial) >= 0
          /\ (get_fast_change_protection(serial) = 0 \/ ~Recorded(serial)) =>
                get_cooldown_remaining(serial) = 0
          /\ (get_fast_change_protection(serial) = 1 /\ Recorded(serial)) =>
                /\ 2 * (now - last_charge_change[serial]) = TicksPerMinute =>
                      2 * get_cooldown_remaining(serial) = TicksPerMinute
                /\ now - last_charge_change[serial] > TicksPerMinute =>
                      get_cooldown_remaining(serial) = 0
          /\ RemainingStep(serial) =>
                /\ ev'.result = RemainingExpected(serial)
                /\ UNCHANGED <<now, running, evses, cooldown, stopping, coordinator>>]_vars

\* the remaining cooldown was read as 0 for a device with a positive protection whose
\* recorded stop lies more than the protection in the past
C18_Witness ==
    /\ ev.op = "get_cooldown_remaining"
    /\ ev.result = 0
    /\ Recorded(ev.serial)
    /\ get_fast_change_protection(ev.serial) > 0
    /\ now - last_charge_change[ev.serial] > Minutes(get_fast_change_protection(ev.serial))

\* C20: in every reachable state and for every identifier, _can_start_charge is true
\* exactly when get_cooldown_remaining is zero; a start for a known device is refused
\* by the guard, with nothing forwarded, exactly while the remaining cooldown is
\* positive.
C20_GateAgreesWithCountdown ==
    [][\A serial \in Serials :
          /\ can_start_charge(serial) <=> get_cooldown_remaining(serial) = 0
          /\ (StartStep(serial) /\ serial \in DOMAIN evses) =>
                (ev'.sent = NoCmd <=> get_cooldown_remaining(serial) > 0)]_vars

\* a start for a known device was refused while its countdown shows a positive rest
C20_Witness ==
    /\ ev.op = "start_charging"
    /\ ev.serial \in DOMAIN evses
    /\ ev.sent = NoCmd
    /\ get_cooldown_remaining(ev.serial) > 0
    /\ ~can_start_charge(ev.serial)

----------------------------------------------------------------------------
(* Claims about concurrent charge commands *)

\* the event is a start_charging(serial, ...) that forwarded charge_start
StartForwarded(e, serial) ==
    e.op = "start_charging" /\ e.serial = serial /\ e.sent # NoCmd

\* C16: with a positive protection, the cooldown is a minimum dwell time under every
\* interleaving of start_charging and stop_charging on one device: no charge_start is
\* forwarded within the protection after a recorded stop, and a stop_charging of a
\* CHARGING device that succeeds was not overtaken, while it awaited the link's reply,
\* by a start_charging that forwarded charge_start.
C16_DwellUnderInterleaving ==
    [][\A serial \in Serials :
          get_fast_change_protection(serial) > 0 =>
              /\ (StartStep(serial) /\ Recorded(serial)
                    /\ now - last_charge_change[serial]
                          < Minutes(get_fast_change_protection(serial)))
                    => ev'.sent = NoCmd
              /\ (StopReturnStep(serial) /\ stopping[serial].was_charging
                    /\ ev'.result = TRUE)
                    => ~StartForwarded(ev, serial)]_vars

----------------------------------------------------------------------------
(* Claims about the range of the protection *)

\* C19: in every reachable state the stored protection of every device is an integer
\* within the bounds of the protection, 0 to 60 minutes, whatever calls of
\* set_fast_change_protection were made.
C19_ProtectionWithinBounds ==
    \A serial \in DOMAIN fast_change_protection :
        /\ fast_change_protection[serial] \in Int
        /\ fast_change_protection[serial] >= native_min_value
        /\ fast_change_protection[serial] <= native_max_value

----------------------------------------------------------------------------
(* Claims about commands the link does not answer *)

\* C13: every forwarded command eventually returns: a stop_charging that forwarded
\* charge_stop and awaits the link returns in the end, with failure if the link has
\* not completed the call, instead of staying suspended.
C13_ForwardedCommandReturns ==
    \A serial \in Serials :
        (serial \in DOMAIN stopping) ~> (serial \notin DOMAIN stopping)

----------------------------------------------------------------------------
(* Claims about the setup and unload of config entries *)

\* the step taken is the return of async_setup_entry(entry)
SetupReturnStep(entry) == ev'.op = "async_setup_entry" /\ ev'.entry = entry
\* the step taken is a pass of the login loop of async_setup_entry(entry)
SetupLoginStep(entry) == ev'.op = "async_setup_entry.login" /\ ev'.entry = entry
\* the step taken is an async_unload_entry(entry)
UnloadStep(entry) == ev'.op = "async_unload_entry" /\ ev'.entry = entry
\* client.start() was called and raised
StartRaised(e) == e.sent = [cmd |-> "start", link_ok |-> FALSE]

\* C14: async_setup_entry returns False exactly when it called client.start() and that
\* raised, and then stores nothing; the login is attempted at most 3 times and not
\* again after a success; once the loop is over, all 3 attempts failed included, the
\* setup can only go on to create and refresh the coordinator, store the entry in
\* hass.data[DOMAIN] and return True.
C14_SetupFailsOnlyOnStart ==
    [][\A entry \in Coordinators :
          /\ SetupReturnStep(entry) =>
                /\ ev'.result = FALSE <=> (entry \notin DOMAIN setting_up /\ StartRaised(ev'))
                /\ ev'.result = FALSE =>
                      /\ ~running
                      /\ UNCHANGED <<running, hass_data, coordinator>>
                /\ ev'.result = TRUE =>
                      /\ entry \in DOMAIN setting_up
                      /\ ev'.sent.logins <= LoginAttempts
                      /\ entry \in DOMAIN hass_data'
                      /\ data'[entry] # NoData
          /\ (ev'.op = "async_setup_entry.await" /\ ev'.entry = entry) => ~StartRaised(ev')
          /\ entry \in DOMAIN setting_up =>
                /\ setting_up[entry].attempt <= LoginAttempts
                /\ login_loop_done(entry) =>
                      ENABLED (\E raises \in BOOLEAN : async_setup_entry_finish(entry, raises))
          /\ SetupLoginStep(entry) =>
                /\ ~setting_up[entry].success
                /\ setting_up[entry].attempt < LoginAttempts
                /\ setting_up'[entry].attempt = setting_up[entry].attempt + 1]_vars

\* a setup whose 3 logins all failed returned True, with the entry stored and its
\* coordinator refreshed
C14_Witness ==
    /\ ev.op = "async_setup_entry"
    /\ ev.result = TRUE
    /\ ev.sent.logins = LoginAttempts
    /\ ~ev.sent.logged_in
    /\ ev.entry \in DOMAIN hass_data
    /\ data[ev.entry] # NoData

\* C15: an async_unload_entry whose platforms unload removes the entry from
\* hass.data[DOMAIN] and calls client.stop() exactly when no other entry is stored;
\* while another entry is stored it does not touch the client; one whose platforms do
\* not unload neither removes the entry nor stops the client.
C15_StopOnlyOnLastUnload ==
    [][\A entry \in Coordinators :
          UnloadStep(entry) =>
              LET last == DOMAIN hass_data = {entry}
                  stopped == ev'.sent = [cmd |-> "stop"]
              IN  /\ entry \in DOMAIN hass_data
                  /\ ev'.result = TRUE =>
                        /\ DOMAIN hass_data' = DOMAIN hass_data \ {entry}
                        /\ stopped <=> last
                        /\ last => running' = FALSE
                        /\ ~last => UNCHANGED <<running, evses>>
                  /\ ev'.result = FALSE =>
                        /\ ~stopped
                        /\ UNCHANGED <<hass_data, running, evses>>]_vars

\* an entry was unloaded while another one stays stored: the client was not stopped
\* and still runs
C15_Witness ==
    /\ ev.op = "async_unload_entry"
    /\ ev.result = TRUE
    /\ ev.sent = NoCmd
    /\ hass_data # EmptyDict
    /\ running

----------------------------------------------------------------------------
(* Claims about concurrent setups, unloads and starts *)

\* C21: under every interleaving of async_setup_entry and async_unload_entry of
\* entries that share the client, the client is running whenever at least one entry
\* is stored in hass.data[DOMAIN]; an unload of the last stored entry that runs while
\* the setup of another entry is past its client.running check does not leave that
\* entry stored with a stopped client.
C21_RegisteredImpliesRunning ==
    hass_data # EmptyDict => running

\* the step taken is a start() that called communicator.start() and awaits it
StartAwaitStep == ev'.op = "start.await"
\* the step taken is the return or re-raise of a start() that awaited the link
StartReturnStep == ev'.op = "start" /\ starting' = starting - 1

\* C22: start() is idempotent, also when several tasks call it: communicator.start()
\* is called only by a start() that finds the client not running and no other start()
\* awaiting the link, so never twice without a stop() in between; running becomes true
\* only in the return of a start() whose communicator.start() succeeded; when
\* communicator.start() raises, start() raises and running stays false.
C22_StartIdempotent ==
    [][/\ StartAwaitStep => (~running /\ starting = 0)
       /\ starting' <= 1
       /\ (running' /\ ~running) =>
             (StartReturnStep /\ ev'.result = "returned" /\ ev'.sent.link_ok)
       /\ (StartReturnStep /\ ~ev'.sent.link_ok) =>
             (ev'.result = "raised" /\ running' = FALSE)]_vars

====
